---- MODULE Spec2Model ----
(***************************************************************************)
(* Two-tier conversational memory: the message ledger (db.py), the         *)
(* conversation chunker and the embedding pipeline (embedding_job.py),     *)
(* the query handlers (api.py) and the personality index                   *)
(* (personality_manager.py).                                               *)
(*                                                                         *)
(* Time is counted in hours: utcnow() is the variable now, and             *)
(* timedelta(hours=1) is StaleHours.  A message_id / job_id / session_id   *)
(* (uuid4 in the code) is a small integer; the ledger tables are the       *)
(* sequences messages and jobs (row i has id i) and the function sessions. *)
(* The vector index is the bag index of upserted (text, metadata) entries: *)
(* every upsert stores its entry under a fresh uuid, so an entry upserted  *)
(* twice is held twice.                                                    *)
(*                                                                         *)
(* The API handlers are `async def` bodies with no await in them, so a     *)
(* handler runs from its first line to its response without another        *)
(* handler of the same process in between: each is one action.  The        *)
(* embedding job is a separate program (python embedding_job.py), run by   *)
(* a scheduler; it waits on the embedding service, the vector index and    *)
(* the database, so it is a process with one action per step, and          *)
(* Runners holds the runs that may be in progress at once.                 *)
(***************************************************************************)
EXTENDS Integers, Sequences, FiniteSets, Bags, TLC

\* ------------------------------------------------------------- bounds
MaxClock == 2
MaxSessions == 2
MaxMessages == 2
MaxJobs == 2
MaxApiMessages == 4
MaxTies == 2
MaxLen == 12
MaxChunkSize == 6
MaxTurns == 12

\* -------------------------------------------------- program constants
\* timedelta(hours=1), embedding_job.py:44
StaleHours == 1
\* chunk_size=5, embedding_job.py:15
DefaultChunkSize == 5

Runners == {1, 2}
\* the API processes serving requests over the one database
Workers == {1, 2}
SessionIds == 1..MaxSessions
\* the session_id query parameter: absent, not a uuid, or a uuid
NoSessionId == 0
MalformedId == -1
\* QueryRequest.personality_id: absent, or a string
NoPersonality == "none"
PersonalityIds == {"pa", "px"}
LoadedAtStartup == {"pa"}
\* QueryRequest.max_results: Optional[int] = 3, api.py:46
DefaultMaxResults == 3
\* LongTermQueryRequest.max_results: Optional[int] = 5, api.py:52
DefaultLongTermResults == 5
\* search_kwargs of a retriever made by as_retriever(): no "k" yet
NoK == 0
Queries == {"q"}
Answers == {"a"}
\* completed_at = NULL, error_message = NULL
Null == -1
NoError == "none"
\* no response sent yet
NoResponse == 0

VARIABLES
    now,                 \* datetime.utcnow(), in hours
    sessions,            \* table sessions: session_id -> row
    messages,            \* table messages: row i has message_id i
    jobs,                \* table embedding_jobs: row i has job_id i
    index,               \* the vector index "ai-agent-memory"
    personalities,       \* PersonalityManager.personalities
    default_personality, \* PersonalityManager.default_personality
    directory,           \* the files of personalities_dir: (stem, suffix) -> content
    first_loaded,        \* the definition _load_personalities loaded first
    prompt,              \* what the last call of create_system_prompt gave
    search_k,            \* retriever.search_kwargs["k"] of the two chains
    retrieved,           \* the k the last retrieval of each chain's retriever asked for
    response,            \* the status code of the last response of the API
    pc,                  \* run_embedding_job: where each run stands
    job,                 \* run_embedding_job: the run's job row
    cutoff_time,         \* run_embedding_job: utcnow() - 1 hour at the selection
    pending_messages,    \* run_embedding_job: the selected message ids, in order
    todo,                \* run_embedding_job: the session groups still to process
    total_processed,     \* run_embedding_job: the counter
    cc_messages,         \* chunk_conversation: argument messages
    cc_size,             \* chunk_conversation: argument chunk_size
    cc_chunks,           \* chunk_conversation: the value returned
    cc_pc,               \* chunk_conversation: called, or returned
    h_session,           \* the history query: the session asked for
    h_limit,             \* the history query: its .limit()
    chat_history,        \* the history query: the rows, as the handler lists them
    h_pc,                \* the history query: called, or returned
    w_pc,                \* conversation in an API process: where the request stands
    w_sid                \* conversation in an API process: the session_id parameter

ledger == <<sessions, messages>>
runvars == <<pc, job, cutoff_time, pending_messages, todo, total_processed>>
ccvars == <<cc_messages, cc_size, cc_chunks, cc_pc>>
histvars == <<h_session, h_limit, chat_history, h_pc>>
\* the calls checked on their own
callvars == <<ccvars, histvars>>
wkvars == <<w_pc, w_sid>>
pmstore == <<personalities, default_personality, directory, first_loaded>>
pmvars == <<pmstore, prompt>>
retriever == <<search_k, retrieved>>
apivars == <<pmvars, retriever, response>>
vars == <<now, sessions, messages, jobs, index, personalities, default_personality,
          directory, first_loaded, prompt,
          search_k, retrieved, response, pc, job, cutoff_time, pending_messages, todo, total_processed,
          cc_messages, cc_size, cc_chunks, cc_pc, h_session, h_limit, chat_history, h_pc,
          w_pc, w_sid>>

\* ------------------------------------------------------------ helpers
Min(a, b) == IF a <= b THEN a ELSE b

Range(s) == {s[i] : i \in 1..Len(s)}

RECURSIVE SelectSeq2(_, _)
\* the subsequence of the ids in s that lie in the set S
SelectSeq2(s, S) ==
    IF s = <<>> THEN <<>>
    ELSE IF Head(s) \in S THEN <<Head(s)>> \o SelectSeq2(Tail(s), S)
    ELSE SelectSeq2(Tail(s), S)

\* ------------------------------------------------- db.py: the row types
\* the column default taken for the status of an entry already in the index
DefaultEmbeddingStatus_embedded == "embedded"

\* Message(session_id=.., role=.., content=..): timestamp and embedding_status
\* take their column defaults
DefaultEmbeddingStatus == "pending"

NewMessage(id, sid, role, content, ts) ==
    [message_id |-> id, session_id |-> sid, role |-> role, content |-> content,
     timestamp |-> ts, embedding_status |-> DefaultEmbeddingStatus]

\* EmbeddingJob(job_id=uuid4()): the other columns take their defaults
NewJob(ts) ==
    [status |-> "running", started_at |-> ts, completed_at |-> Null,
     messages_processed |-> 0, error_message |-> NoError]

\* DbSession(session_id=..): last_active and session_metadata take their defaults
\* (user_id is never set and created_at never read: they are left out)
NewSession(ts) ==
    [last_active |-> ts, personality_id |-> NoPersonality]

\* ------------------------------------ embedding_job.py: chunk_conversation
\* one (text, metadata) pair for the window chunk = messages[i:i+chunk_size]
ChunkOf(chunk) ==
    [text |-> [j \in 1..Len(chunk) |-> <<chunk[j].role, chunk[j].content>>],
     metadata |->
        [session_id |-> chunk[1].session_id,
         start_time |-> chunk[1].timestamp,
         end_time |-> chunk[Len(chunk)].timestamp,
         message_ids |-> [j \in 1..Len(chunk) |-> chunk[j].message_id],
         type |-> "conversation_history"]]

\* the upper end of the slice messages[i:i+chunk_size] (i counts from 0)
SliceEnd(i, n, size) == Min(i + size, n)

RECURSIVE ChunkLoop(_, _, _)
\* for i in range(i, len(msgs), size): chunks.append(...)
ChunkLoop(msgs, size, i) ==
    IF i >= Len(msgs) THEN <<>>
    ELSE <<ChunkOf(SubSeq(msgs, i + 1, SliceEnd(i, Len(msgs), size)))>>
         \o ChunkLoop(msgs, size, i + size)

\* range(0, len(messages) - chunk_size + 1, chunk_size): the short last window
\* is not taken
chunk_conversation_dropShort(msgs, size) ==
    ChunkLoop(SubSeq(msgs, 1, (Len(msgs) \div size) * size), size, 0)

chunk_conversation(msgs, size) == ChunkLoop(msgs, size, 0)

\* ------------------------------------- embedding_job.py: run_embedding_job
\* the selection query without its filter on embedding_status
Eligible_anyStatus(m, cutoff) == m.timestamp < cutoff

\* the filter with one more condition, on the role
Eligible_queriesOnly(m, cutoff) ==
    /\ m.embedding_status = "pending"
    /\ m.timestamp < cutoff
    /\ m.role = "user"

\* the filter that passes over the rows a failed run has selected
Eligible_unlessStranded(m, cutoff) ==
    /\ m.embedding_status = "pending"
    /\ m.timestamp < cutoff
    /\ \A j \in 1..Len(jobs) :
         jobs[j].status = "failed" => m.timestamp >= jobs[j].started_at - StaleHours

\* the filter with Message.timestamp <= cutoff_time
Eligible_atThreshold(m, cutoff) ==
    /\ m.embedding_status = "pending"
    /\ m.timestamp <= cutoff

\* the filter of the selection query: pending, and timestamp < cutoff_time
Eligible(m, cutoff) ==
    /\ m.embedding_status = "pending"
    /\ m.timestamp < cutoff

RECURSIVE OrderByTimestamp(_)
\* .order_by(Message.timestamp): every order of the ids in S that is sorted by
\* timestamp (the database breaks ties as it likes)
OrderByTimestamp(S) ==
    IF S = {} THEN {<<>>}
    ELSE LET firsts == {i \in S : \A j \in S : messages[i].timestamp <= messages[j].timestamp}
         IN  UNION {{<<i>> \o rest : rest \in OrderByTimestamp(S \ {i})} : i \in firsts}

RECURSIVE GroupKeys(_, _)
\* the keys of the dict `sessions`, in insertion order: each session_id at its
\* first message in ids
GroupKeys(ids, seen) ==
    IF ids = <<>> THEN <<>>
    ELSE LET sid == messages[Head(ids)].session_id
         IN  IF sid \in seen THEN GroupKeys(Tail(ids), seen)
             ELSE <<sid>> \o GroupKeys(Tail(ids), seen \cup {sid})

\* the selected ids of every session, not grouped
GroupOf_ungrouped(ids, sid) == ids

\* sessions[sid]: the selected ids of one session, in selection order
GroupOf(ids, sid) ==
    SelectSeq2(ids, {i \in Range(ids) : messages[i].session_id = sid})

\* the rows of ids that are still pending when the session is chunked
Rows_stillPending(ids) ==
    LET still == SelectSeq2(ids, {i \in Range(ids) : messages[i].embedding_status = "pending"})
    IN  [j \in 1..Len(still) |-> messages[still[j]]]

\* the ORM rows of a list of ids
Rows(ids) == [j \in 1..Len(ids) |-> messages[ids[j]]]

\* every row of the ledger is marked, whatever its session
MarkEmbedded_everyRow(msgs, ids) ==
    [i \in 1..Len(msgs) |-> [msgs[i] EXCEPT !.embedding_status = "embedded"]]

\* only the first row of ids is marked
MarkEmbedded_headOnly(msgs, ids) ==
    [i \in 1..Len(msgs) |->
        IF i = Head(ids) THEN [msgs[i] EXCEPT !.embedding_status = "embedded"]
        ELSE msgs[i]]

\* msg.embedding_status = "embedded" for the rows of ids, then db.commit()
MarkEmbedded(msgs, ids) ==
    [i \in 1..Len(msgs) |->
        IF i \in Range(ids) THEN [msgs[i] EXCEPT !.embedding_status = "embedded"]
        ELSE msgs[i]]

\* add_texts that returns without having stored the last of its texts
RECURSIVE Upsert_dropLast(_, _)
Upsert_dropLast(idx, chunks) ==
    IF Len(chunks) <= 1 THEN idx
    ELSE Upsert_dropLast(idx (+) SetToBag({Head(chunks)}), Tail(chunks))

RECURSIVE Upsert(_, _)
\* vectorstore.add_texts: each (text, metadata) is stored under a fresh id
Upsert(idx, chunks) ==
    IF chunks = <<>> THEN idx
    ELSE Upsert(idx (+) SetToBag({Head(chunks)}), Tail(chunks))

\* a run is over: its locals go
Return(r) ==
    /\ pc' = [pc EXCEPT ![r] = "idle"]
    /\ job' = [job EXCEPT ![r] = 0]
    /\ cutoff_time' = [cutoff_time EXCEPT ![r] = Null]
    /\ pending_messages' = [pending_messages EXCEPT ![r] = <<>>]
    /\ todo' = [todo EXCEPT ![r] = <<>>]
    /\ total_processed' = [total_processed EXCEPT ![r] = 0]

MarkJobFailed_noCompletion(js, j, ts) ==
    [js EXCEPT ![j] = [@ EXCEPT !.status = "failed",
                                !.error_message = "error"]]

\* lines 110-116: the except branch
MarkJobFailed(js, j, ts) ==
    [js EXCEPT ![j] = [@ EXCEPT !.status = "failed",
                                !.error_message = "error",
                                !.completed_at = ts]]

\* lines 39-41: the job row is inserted and committed.  The runs are alike, so
\* of the idle ones the lowest starts
StartRun(r) ==
    /\ pc[r] = "idle"
    /\ \A other \in Runners : other < r => pc[other] # "idle"
    /\ Len(jobs) < MaxJobs
    /\ jobs' = Append(jobs, NewJob(now))
    /\ job' = [job EXCEPT ![r] = Len(jobs) + 1]
    /\ pc' = [pc EXCEPT ![r] = "select"]
    /\ UNCHANGED <<now, ledger, index, apivars, cutoff_time, pending_messages, todo,
                   total_processed, callvars, wkvars>>

\* lines 44-63: the selection, the early return, the grouping
SelectMessages(r) ==
    /\ pc[r] = "select"
    /\ LET cutoff == now - StaleHours
           found == {i \in 1..Len(messages) : Eligible(messages[i], cutoff)}
       IN  \E ids \in OrderByTimestamp(found) :
             IF ids = <<>>
             THEN /\ jobs' = [jobs EXCEPT ![job[r]] =
                                [@ EXCEPT !.status = "completed", !.completed_at = now]]
                  /\ Return(r)
             ELSE /\ cutoff_time' = [cutoff_time EXCEPT ![r] = cutoff]
                  /\ pending_messages' = [pending_messages EXCEPT ![r] = ids]
                  /\ todo' = [todo EXCEPT ![r] = GroupKeys(ids, {})]
                  /\ total_processed' = [total_processed EXCEPT ![r] = 0]
                  /\ pc' = [pc EXCEPT ![r] = "embed"]
                  /\ UNCHANGED <<jobs, job>>
    /\ UNCHANGED <<now, ledger, index, apivars, callvars, wkvars>>

\* lines 82-93: the head session is chunked and vectorstore.add_texts returns
AddTexts(r) ==
    /\ pc[r] = "embed"
    /\ LET group == GroupOf(pending_messages[r], Head(todo[r]))
           chunks == chunk_conversation(Rows(group), DefaultChunkSize)
       IN  index' = Upsert(index, chunks)
    /\ pc' = [pc EXCEPT ![r] = "commit"]
    /\ UNCHANGED <<now, ledger, jobs, apivars, job, cutoff_time, pending_messages,
                   todo, total_processed, callvars, wkvars>>

\* lines 66-78 or line 93 raise (a missing key, the embedding call, the upsert):
\* add_texts may have upserted some of the chunks when it raises; then the
\* except branch
AddTextsFails(r) ==
    /\ pc[r] = "embed"
    /\ LET group == GroupOf(pending_messages[r], Head(todo[r]))
           chunks == chunk_conversation(Rows(group), DefaultChunkSize)
       IN  \E k \in 0..Len(chunks) : index' = Upsert(index, SubSeq(chunks, 1, k))
    /\ jobs' = MarkJobFailed(jobs, job[r], now)
    /\ Return(r)
    /\ UNCHANGED <<now, ledger, apivars, callvars, wkvars>>

\* lines 96-100: the group's rows are marked and the transaction commits
CommitSession(r) ==
    /\ pc[r] = "commit"
    /\ LET group == GroupOf(pending_messages[r], Head(todo[r]))
       IN  /\ messages' = MarkEmbedded(messages, group)
           /\ total_processed' = [total_processed EXCEPT ![r] = @ + Len(group)]
    /\ todo' = [todo EXCEPT ![r] = Tail(@)]
    /\ pc' = [pc EXCEPT ![r] = IF Tail(todo[r]) = <<>> THEN "finish" ELSE "embed"]
    /\ UNCHANGED <<now, sessions, jobs, index, apivars, job, cutoff_time,
                   pending_messages, callvars, wkvars>>

\* line 100 raises: nothing of the transaction is stored.  The except branch
\* commits the failed job and the function returns
CommitFails(r) ==
    /\ pc[r] = "commit"
    /\ jobs' = MarkJobFailed(jobs, job[r], now)
    /\ Return(r)
    /\ UNCHANGED <<now, ledger, index, apivars, callvars, wkvars>>

\* line 100 raises and the commit of the except branch (line 116) raises
\* too, the database being out of reach: the job row stays as it was and the
\* exception leaves run_embedding_job through the finally
HandlerFails(r) ==
    /\ pc[r] = "commit"
    /\ jobs' = jobs
    /\ Return(r)
    /\ UNCHANGED <<now, ledger, index, apivars, callvars, wkvars>>

\* lines 103-106
Finish(r) ==
    /\ pc[r] = "finish"
    /\ jobs' = [jobs EXCEPT ![job[r]] =
                  [@ EXCEPT !.status = "completed",
                            !.completed_at = now,
                            !.messages_processed = total_processed[r]]]
    /\ Return(r)
    /\ UNCHANGED <<now, ledger, index, apivars, callvars, wkvars>>

\* the clock
Tick ==
    /\ now < MaxClock
    /\ now' = now + 1
    /\ UNCHANGED <<ledger, jobs, index, apivars, runvars, callvars, wkvars>>

\* ------------------------------- personality_manager.py: PersonalityManager
\* A file of the directory is named by (stem, suffix).  Its content is
\* either a text that json.loads rejects, or the text of a JSON object;
\* "text" tells two raw texts apart.
Stems == {"pa", "pb"}
Suffixes == {".json", ".txt", ".bak"}
Files == Stems \X Suffixes
\* the suffixes _load_personalities reads, line 34 (".fil", ".md" are read
\* like ".txt")
StartupSuffixes == {".json", ".txt"}

RequiredFields == {"name", "role", "core_identity"}
OptionalFields == {"communication_style", "anchor_phrases",
                   "behavioral_guidelines", "example_responses"}
\* a JSON object: the fields it has, each "empty" ({} / [] / "") or "full"
Objects == UNION {[D -> {"empty", "full"}] : D \in SUBSET (RequiredFields \cup OptionalFields)}
TemplateObjects ==
    {o \in Objects : \A f \in RequiredFields \cap DOMAIN o : o[f] = "full"}
NoObject == [f \in {} |-> "empty"]
RawText(t) == [json |-> FALSE, object |-> NoObject, text |-> t]
JsonObject(o) == [json |-> TRUE, object |-> o, text |-> "json"]
MinimalObject == [f \in RequiredFields |-> "full"]

\* _load_personality_file raises ValueError: a ".json" file json.loads rejects
Loads(file, content) == file[2] # ".json" \/ content.json

load_personality_file(file, content) ==
    [type |-> IF file[2] = ".json" THEN "template" ELSE "prompt",
     data |-> content,
     path |-> file]

NoDefinition == [type |-> "none", data |-> RawText("none"), path |-> <<"none", "none">>]

\* the loop of _load_personalities over the files in the order glob gives
\* them: a file that does not load is skipped, the first that loads is the
\* default; "first" is the definition line 37 stored when line 41 set the
\* default
RECURSIVE load_personalities(_, _, _, _, _)
load_personalities(dir, files, loaded, dflt, first) ==
    IF files = <<>>
    THEN [personalities |-> loaded, default_personality |-> dflt, first_loaded |-> first]
    ELSE LET file == Head(files)
         IN  IF file[2] \in StartupSuffixes /\ Loads(file, dir[file])
             THEN load_personalities(dir, Tail(files),
                     (file[1] :> load_personality_file(file, dir[file])) @@ loaded,
                     IF dflt = NoPersonality THEN file[1] ELSE dflt,
                     IF dflt = NoPersonality
                     THEN load_personality_file(file, dir[file]) ELSE first)
             ELSE load_personalities(dir, Tail(files), loaded, dflt, first)

\* the orders glob may give the files of a directory in
GlobOrders(S) ==
    {o \in [1..Cardinality(S) -> S] : \A i, j \in 1..Cardinality(S) : o[i] = o[j] => i = j}

get_personality(personality_id) ==
    LET id == IF personality_id = NoPersonality THEN default_personality
              ELSE personality_id
    IN  IF id \notin DOMAIN personalities
        THEN [status |-> "ValueError", personality |-> NoDefinition]
        ELSE [status |-> "ok", personality |-> personalities[id]]

\* lines 144-169: the lines of the prompt that follow the core identity
\* (blank separator lines left out)
StyleSection(data) ==
    <<"Communication style:">>
    \o (IF "communication_style" \in DOMAIN data /\ data["communication_style"] = "full"
        THEN <<"- style">> ELSE <<>>)

AnchorSection(data) ==
    IF "anchor_phrases" \in DOMAIN data /\ data["anchor_phrases"] = "full"
    THEN <<"Use these anchor phrases in your responses:", "- phrase">>
    ELSE <<>>

GuidelineSection(data) ==
    IF "behavioral_guidelines" \in DOMAIN data
    THEN <<"Guidelines for your responses:">>
         \o (IF data["behavioral_guidelines"] = "full" THEN <<"- guideline">> ELSE <<>>)
    ELSE <<>>

ExampleSection(data) ==
    IF "example_responses" \in DOMAIN data /\ data["example_responses"] = "full"
    THEN <<"Examples of your typical responses:", "- example">>
    ELSE <<>>

NoPrompt == [status |-> "none", text |-> <<>>]

\* lines 134-171, for the definition get_personality returned
render(personality) ==
    LET data == personality.data.object
    IN  IF personality.type = "prompt"
        THEN [status |-> "ok", text |-> <<personality.data.text>>]
        ELSE IF ~(RequiredFields \subseteq DOMAIN data)
        THEN [status |-> "KeyError", text |-> <<>>]
        ELSE [status |-> "ok",
              text |-> <<"You are name, role.", "core_identity">>
                       \o StyleSection(data) \o AnchorSection(data)
                       \o GuidelineSection(data) \o ExampleSection(data)]

create_system_prompt(personality_id) ==
    LET got == get_personality(personality_id)
    IN  IF got.status # "ok" THEN [status |-> "ValueError", text |-> <<>>]
        ELSE render(got.personality)

\* GET /personalities/{id}/prompt, api.py:428-438: ValueError is answered
\* 404, any other exception 500
GetPersonalityPrompt(personality_id) ==
    /\ prompt' = create_system_prompt(personality_id)
    /\ response' = CASE prompt'.status = "ok" -> 200
                     [] prompt'.status = "ValueError" -> 404
                     [] OTHER -> 500
    /\ UNCHANGED <<now, ledger, jobs, index, pmstore, retriever, runvars, callvars, wkvars>>

\* create_system_prompt() with no id, as initialize_chains calls it
\* (api.py:90)
DefaultPrompt ==
    /\ prompt' = create_system_prompt(NoPersonality)
    /\ response' = NoResponse
    /\ UNCHANGED <<now, ledger, jobs, index, pmstore, retriever, runvars, callvars, wkvars>>

MaxFiles == 2

\* add_personality(file_path), lines 185-204, as POST /personalities/upload
\* calls it (api.py:419-426): the target file is written, then loaded
AddPersonality(file, content) ==
    /\ file \in DOMAIN directory \/ Cardinality(DOMAIN directory) < MaxFiles
    /\ directory' = (file :> content) @@ directory
    /\ IF Loads(file, content)
       THEN /\ personalities' =
                   (file[1] :> load_personality_file(file, content)) @@ personalities
            /\ response' = 200
       ELSE /\ personalities' = personalities
            /\ response' = 400
    /\ UNCHANGED <<now, ledger, jobs, index, default_personality, first_loaded,
                   prompt, retriever, runvars, callvars, wkvars>>

\* ------------------------------------------------ api.py: the handlers
Chains == {"retrieval_qa", "conversational"}

\* lines 200-206.  session_metadata is a plain JSON column: the assignment of
\* line 203 is written by the commit of line 206, the item assignment of line
\* 204 on a dict that is already stored is an in-place change the ORM does not
\* see, and the commit expires the row, so the stored choice stays
StoreChoice(stored, requested) ==
    IF requested = NoPersonality THEN stored
    ELSE IF stored = NoPersonality THEN requested
    ELSE stored

\* lines 217-222: the stored choice first, else the request's
ChosenPersonality(stored, requested) ==
    IF stored # NoPersonality THEN stored ELSE requested

\* the retriever asks the index for search_kwargs["k"] matches, as the field
\* was before the handler wrote it
Retrieve_beforeWrite(kwargs, chain) == search_k[chain]

\* retriever.get_relevant_documents, or the chain's invoke: the retriever
\* asks the index for the search_kwargs["k"] matches the field holds
Retrieve(kwargs, chain) == kwargs[chain]

\* lines 230-231 and 250-251 (156-157, 167-168, 322-323, 342-343): the
\* request's max_results is written to the chain's retriever and the
\* retrieval is called, nothing awaited between the two
Retrieval(chain, k) ==
    /\ search_k' = [search_k EXCEPT ![chain] = k]
    /\ retrieved' = [retrieved EXCEPT ![chain] = Retrieve(search_k', chain)]

\* get_llm_with_personality -> create_system_prompt -> get_personality:
\* ValueError("Personality not found") unless the id is indexed
Compiles(personality_id) == create_system_prompt(personality_id).status = "ok"

\* lines 180-193: the session row is fetched, or inserted and committed
ResolveSession(sid) ==
    IF sid \in DOMAIN sessions THEN sessions
    ELSE sessions @@ (sid :> NewSession(now))

\* the personality choice is committed, last_active is left as it was
TouchSession_keepsLastActive(sid, pid) ==
    [ResolveSession(sid)[sid] EXCEPT !.personality_id = StoreChoice(@, pid)]

\* lines 197-206: last_active and the personality choice, committed
TouchSession(sid, pid) ==
    [ResolveSession(sid)[sid] EXCEPT !.last_active = now,
                                     !.personality_id = StoreChoice(@, pid)]

\* the turn is stored and the earlier rows of its session are set back to
\* pending
StoreTurn_resetsSession(msgs, sid, query, answer, t_user, t_assistant, generated) ==
    IF generated
    THEN [i \in 1..Len(msgs) |->
            IF msgs[i].session_id = sid
            THEN [msgs[i] EXCEPT !.embedding_status = "pending"] ELSE msgs[i]]
         \o <<NewMessage(Len(msgs) + 1, sid, "user", query, t_user),
               NewMessage(Len(msgs) + 2, sid, "assistant", answer, t_assistant)>>
    ELSE msgs

\* the user row is added and committed before the chain is called
StoreTurn_userFirst(msgs, sid, query, answer, t_user, t_assistant, generated) ==
    IF generated
    THEN msgs \o <<NewMessage(Len(msgs) + 1, sid, "user", query, t_user),
                   NewMessage(Len(msgs) + 2, sid, "assistant", answer, t_assistant)>>
    ELSE Append(msgs, NewMessage(Len(msgs) + 1, sid, "user", query, t_user))

\* lines 245-261: the two rows are added and committed together, after the
\* chain has answered; when the chain raises, line 257 is never reached
StoreTurn(msgs, sid, query, answer, t_user, t_assistant, generated) ==
    IF generated
    THEN msgs \o <<NewMessage(Len(msgs) + 1, sid, "user", query, t_user),
                   NewMessage(Len(msgs) + 2, sid, "assistant", answer, t_assistant)>>
    ELSE msgs

\* the session a conversation request works on: the uuid4 of line 182 when the
\* request names none
SessionOf(sid, fresh) == IF sid = NoSessionId THEN fresh ELSE sid

\* the personality the turn is compiled with
ConversationPersonality(sid, fresh, pid) ==
    ChosenPersonality(TouchSession(SessionOf(sid, fresh), pid).personality_id, pid)

\* the status code of the response of POST /conversation: every exception of
\* the body, the HTTPException(400) of line 195 among them, leaves through
\* line 280 as a 500
ConversationStatus(sid, fresh, pid, generated) ==
    IF sid = MalformedId THEN 500
    ELSE IF /\ ConversationPersonality(sid, fresh, pid) # NoPersonality
            /\ ~Compiles(ConversationPersonality(sid, fresh, pid)) THEN 500
    ELSE IF generated THEN 200
    ELSE 500

\* POST /conversation, lines 175-280.  fresh is the uuid4 of line 182; late is
\* whether the clock moves between the two column defaults of the last commit
Conversation(sid, fresh, pid, k, query, answer, generated, late) ==
    /\ IF sid = MalformedId
       THEN UNCHANGED <<now, ledger, retriever>>
       ELSE LET s == SessionOf(sid, fresh)
                personality_id == ConversationPersonality(sid, fresh, pid)
            IN  /\ sessions' = [ResolveSession(s) EXCEPT ![s] = TouchSession(s, pid)]
                /\ IF personality_id # NoPersonality /\ ~Compiles(personality_id)
                   THEN UNCHANGED <<now, messages, retriever>>
                   ELSE /\ Retrieval("conversational", k)
                        /\ now + late <= MaxClock
                        /\ now' = IF generated THEN now + late ELSE now
                        /\ messages' = StoreTurn(messages, s, query, answer,
                                                 now, now + late, generated)
    /\ response' = ConversationStatus(sid, fresh, pid, generated)
    /\ UNCHANGED <<jobs, index, pmvars, runvars, callvars>>

\* the personality a long-term query is compiled with, lines 295-304
LongTermPersonality(sid, pid) ==
    IF pid # NoPersonality THEN pid
    ELSE IF sid \in DOMAIN sessions THEN sessions[sid].personality_id
    ELSE NoPersonality

LongTermStatus(sid, pid, generated) ==
    IF sid = MalformedId THEN 500
    ELSE IF /\ LongTermPersonality(sid, pid) # NoPersonality
            /\ ~Compiles(LongTermPersonality(sid, pid)) THEN 500
    ELSE IF generated THEN 200
    ELSE 500

\* POST /long_term_query, lines 284-382: reads the session and its history,
\* writes nothing to the ledger
LongTermQuery(sid, pid, k, generated) ==
    /\ IF sid = MalformedId
       THEN UNCHANGED retriever
       ELSE LET personality_id == LongTermPersonality(sid, pid)
            IN  IF personality_id # NoPersonality /\ ~Compiles(personality_id)
                THEN UNCHANGED retriever
                ELSE Retrieval("conversational", k)
    /\ response' = LongTermStatus(sid, pid, generated)
    /\ UNCHANGED <<now, ledger, jobs, index, pmvars,
                   runvars, callvars, wkvars>>

\* the status code of the response of POST /query
QueryStatus(pid, generated) ==
    IF pid # NoPersonality /\ ~Compiles(pid) THEN 500
    ELSE IF generated THEN 200
    ELSE 500

\* POST /query, lines 145-171: no session, no ledger
Query(pid, k, generated) ==
    /\ IF pid # NoPersonality /\ ~Compiles(pid)
       THEN UNCHANGED retriever
       ELSE Retrieval("retrieval_qa", k)
    /\ response' = QueryStatus(pid, generated)
    /\ UNCHANGED <<now, ledger, jobs, index, pmvars,
                   runvars, callvars, wkvars>>

\* ------------------------------------------------------ the system
\* the tables empty
EmptyLedger ==
    /\ now = 0
    /\ sessions = <<>>
    /\ messages = <<>>
    /\ jobs = <<>>
    /\ index = EmptyBag

\* PersonalityManager.__init__, personality_manager.py:21-25, on the
\* directory dir whose files glob gives in the order files
PersonalityManager(dir, files) ==
    LET loaded == load_personalities(dir, files, <<>>, NoPersonality, NoDefinition)
    IN  /\ directory = dir
        /\ personalities = loaded.personalities
        /\ default_personality = loaded.default_personality
        /\ first_loaded = loaded.first_loaded
        /\ prompt = NoPrompt

\* the directory of the deployment: one raw prompt
StartupDirectory == [file \in LoadedAtStartup \X {".txt"} |-> RawText("text1")]

\* the rest of the process: no request answered, no run started, no call made
Process ==
    /\ search_k = [c \in Chains |-> NoK]
    /\ retrieved = [c \in Chains |-> NoK]
    /\ response = NoResponse
    /\ pc = [r \in Runners |-> "idle"]
    /\ job = [r \in Runners |-> 0]
    /\ cutoff_time = [r \in Runners |-> Null]
    /\ pending_messages = [r \in Runners |-> <<>>]
    /\ todo = [r \in Runners |-> <<>>]
    /\ total_processed = [r \in Runners |-> 0]
    /\ cc_messages = <<>>
    /\ cc_size = 1
    /\ cc_chunks = <<>>
    /\ cc_pc = "idle"
    /\ h_session = NoSessionId
    /\ h_limit = 0
    /\ chat_history = <<>>
    /\ h_pc = "idle"
    /\ w_pc = [w \in Workers |-> "idle"]
    /\ w_sid = [w \in Workers |-> NoSessionId]

\* the process after initialize_chains(); no run started, no call made
Started ==
    /\ PersonalityManager(StartupDirectory, <<<<"pa", ".txt">>>>)
    /\ Process

Init == EmptyLedger /\ Started

\* uuids are alike: of the unseen ones a request names, or uuid4 draws, the lowest
Unseen == {s \in SessionIds : s \notin DOMAIN sessions /\ \A t \in SessionIds : t < s => t \in DOMAIN sessions}

\* the session_id values a request may carry, with the uuid4 drawn for each
SessionInputs ==
    {<<s, s>> : s \in DOMAIN sessions \cup Unseen} \cup {<<NoSessionId, f>> : f \in Unseen}
        \cup {<<MalformedId, MalformedId>>}

\* the conversation requests with personality ids from P and max_results from
\* K, the chain answering or raising as G says, while the table messages holds
\* fewer than max rows
Turns(P, K, G, max) ==
    /\ Len(messages) + 2 <= max
    /\ UNCHANGED wkvars
    /\ \E in \in SessionInputs, pid \in P, k \in K, query \in Queries,
          answer \in Answers, generated \in G, late \in {0, 1} :
            Conversation(in[1], in[2], pid, k, query, answer, generated, late)

LongTermQueries(P, K) ==
    \E sid \in DOMAIN sessions \cup Unseen \cup {NoSessionId, MalformedId},
       pid \in P, k \in K, generated \in BOOLEAN :
         LongTermQuery(sid, pid, k, generated)

Queries_(P, K) ==
    \E pid \in P, k \in K, generated \in BOOLEAN : Query(pid, k, generated)

RunSteps(r) ==
    \/ SelectMessages(r)
    \/ AddTexts(r)
    \/ AddTextsFails(r)
    \/ CommitSession(r)
    \/ CommitFails(r)
    \/ HandlerFails(r)
    \/ Finish(r)

\* the ledger and the job: the requests with their default parameters and
\* the chain answering (SpecApi has the failing requests), and any number of
\* runs at once: nothing in the job keeps a second run out
Next ==
    \/ Tick
    \/ Turns({NoPersonality}, {DefaultMaxResults}, {TRUE}, MaxMessages)
    \/ LongTermQueries({NoPersonality}, {DefaultMaxResults})
    \/ \E r \in Runners : StartRun(r) \/ RunSteps(r)

Spec == Init /\ [][Next]_vars

\* the scheduler keeps the runs apart: a run starts when none is in progress
StartRunAlone(r) ==
    /\ \A other \in Runners : pc[other] = "idle"
    /\ StartRun(r)

NextSerial ==
    \/ Tick
    \/ Turns({NoPersonality}, {DefaultMaxResults}, {TRUE}, MaxMessages)
    \/ LongTermQueries({NoPersonality}, {DefaultMaxResults})
    \/ \E r \in Runners : StartRunAlone(r) \/ RunSteps(r)

SpecSerial == Init /\ [][NextSerial]_vars

\* the API alone: the requests with any personality id, the chain answering
\* or raising; no run of the job, and the clock moves as the turns are stored
NextApi ==
    \/ Turns(PersonalityIds \cup {NoPersonality}, {DefaultMaxResults}, BOOLEAN, MaxApiMessages)
    \/ LongTermQueries(PersonalityIds \cup {NoPersonality}, {DefaultLongTermResults})
    \/ Queries_(PersonalityIds \cup {NoPersonality}, {DefaultMaxResults})

SpecApi == Init /\ [][NextApi]_vars

\* ----------------------------------------- chunk_conversation on its own
\* a chronologically sorted list of n rows of one session, the ids from first
\* on, the timestamps an hour apart or all alike
MessageList(n, sid, first, apart) ==
    [i \in 1..n |->
        NewMessage(first + i - 1, sid, IF i % 2 = 1 THEN "user" ELSE "assistant",
                   "q", IF apart THEN i ELSE 0)]

InitChunk ==
    /\ EmptyLedger
    /\ PersonalityManager(StartupDirectory, <<<<"pa", ".txt">>>>)
    /\ search_k = [c \in Chains |-> NoK]
    /\ retrieved = [c \in Chains |-> NoK]
    /\ response = NoResponse
    /\ pc = [r \in Runners |-> "idle"]
    /\ job = [r \in Runners |-> 0]
    /\ cutoff_time = [r \in Runners |-> Null]
    /\ pending_messages = [r \in Runners |-> <<>>]
    /\ todo = [r \in Runners |-> <<>>]
    /\ total_processed = [r \in Runners |-> 0]
    /\ \E n \in 0..MaxLen, sid \in SessionIds, first \in {1, 4}, apart \in BOOLEAN :
         cc_messages = MessageList(n, sid, first, apart)
    /\ cc_size \in 1..MaxChunkSize
    /\ cc_chunks = <<>>
    /\ cc_pc = "called"
    /\ h_session = NoSessionId
    /\ h_limit = 0
    /\ chat_history = <<>>
    /\ h_pc = "idle"
    /\ w_pc = [w \in Workers |-> "idle"]
    /\ w_sid = [w \in Workers |-> NoSessionId]

\* chunks = chunk_conversation(messages, chunk_size)
ChunkCall ==
    /\ cc_pc = "called"
    /\ cc_chunks' = chunk_conversation(cc_messages, cc_size)
    /\ cc_pc' = "returned"
    /\ UNCHANGED <<now, ledger, jobs, index, apivars, runvars, cc_messages, cc_size,
                   histvars, wkvars>>

NextChunk == ChunkCall

SpecChunk == InitChunk /\ [][NextChunk]_vars

\* ------------------------------------- the job on a ledger with a backlog
\* six answered turns of session 1, two hours apart, the reply of a turn
\* stamped in the hour of its query (in MaxTies turns at most) or the next;
\* all of it older than the staleness threshold
BacklogTurns == (5 + 5 + 2) \div 2

BacklogMessages(late) ==
    [i \in 1..(2 * BacklogTurns) |->
        LET turn == (i + 1) \div 2
        IN  IF i % 2 = 1
            THEN NewMessage(i, 1, "user", "q", 2 * (turn - 1))
            ELSE NewMessage(i, 1, "assistant", "a", 2 * (turn - 1) + late[turn])]

InitBacklog ==
    /\ Started
    /\ now = 2 * BacklogTurns + StaleHours
    /\ \E late \in [1..BacklogTurns -> {0, 1}] :
         /\ Cardinality({t \in 1..BacklogTurns : late[t] = 0}) <= MaxTies
         /\ messages = BacklogMessages(late)
         /\ sessions = (1 :> [last_active |-> 2 * (BacklogTurns - 1),
                              personality_id |-> NoPersonality])
    /\ jobs = <<>>
    /\ index = EmptyBag

NextBacklog == \E r \in Runners : StartRunAlone(r) \/ RunSteps(r)

SpecBacklog == InitBacklog /\ [][NextBacklog]_vars

\* --------------------------------- api.py: the short-term history query
\* .limit(10) of conversation, api.py:211
HistoryLimit == 10
\* .limit(20) of long_term_query, api.py:309
LongTermHistoryLimit == 20

RECURSIVE OrderByTimestampDesc(_)
\* .order_by(Message.timestamp.desc()): every order of the ids in S that is
\* sorted by descending timestamp (the database breaks ties as it likes)
OrderByTimestampDesc(S) ==
    IF S = {} THEN {<<>>}
    ELSE LET firsts == {i \in S : \A j \in S : messages[i].timestamp >= messages[j].timestamp}
         IN  UNION {{<<i>> \o rest : rest \in OrderByTimestampDesc(S \ {i})} : i \in firsts}

\* .limit(n)
Limit(s, n) == SubSeq(s, 1, Min(n, Len(s)))

\* reversed(recent_messages)
Reversed(s) == [i \in 1..Len(s) |-> s[Len(s) + 1 - i]]

\* the rows the handler lists as chat history: the last `limit` rows of the
\* session by descending timestamp, reversed
RecentMessages(sid, limit) ==
    {Rows(Reversed(Limit(o, limit))) :
        o \in OrderByTimestampDesc({i \in 1..Len(messages) : messages[i].session_id = sid})}

\* the ledger after T answered turns two hours apart, every third one of
\* session 2 when other holds and all of session 1 otherwise, the reply of a
\* turn stamped with the clock reading of its query (late[turn] = 0) or the next
TurnsLedger(T, other, late) ==
    [i \in 1..(2 * T) |->
        LET turn == (i + 1) \div 2
            sid == IF other /\ turn % 3 = 0 THEN 2 ELSE 1
        IN  IF i % 2 = 1
            THEN NewMessage(i, sid, "user", "q", 2 * (turn - 1))
            ELSE NewMessage(i, sid, "assistant", "a", 2 * (turn - 1) + late[turn])]

InitHistory ==
    /\ Started
    /\ \E T \in 0..MaxTurns, other \in BOOLEAN :
         \E late \in [1..T -> {0, 1}] :
            /\ Cardinality({t \in 1..T : late[t] = 0}) <= MaxTies
            /\ now = 2 * T
            /\ messages = TurnsLedger(T, other, late)
            /\ sessions = [s \in {1, 2} |-> NewSession(0)]
    /\ jobs = <<>>
    /\ index = EmptyBag

\* lines 208-215 and 306-312: the history of a session is fetched
HistoryCall ==
    /\ h_pc = "idle"
    /\ \E sid \in DOMAIN sessions, limit \in {HistoryLimit, LongTermHistoryLimit} :
         /\ h_session' = sid
         /\ h_limit' = limit
         /\ chat_history' \in RecentMessages(sid, limit)
    /\ h_pc' = "returned"
    /\ UNCHANGED <<now, ledger, jobs, index, apivars, runvars, ccvars, wkvars>>

NextHistory == HistoryCall

SpecHistory == InitHistory /\ [][NextHistory]_vars

\* ------------------------- api.py: conversation in several API processes
\* Served by more than one process (uvicorn api:app with workers), the
\* handlers of two processes interleave at their database round trips.  The
\* session resolution of lines 186-193 is two of them: the SELECT of line
\* 189, and the INSERT with its commit of lines 191-193.  session_id is the
\* primary key of the table sessions (db.py:44).

\* line 189: db.query(DbSession).filter(...).first() for a well-formed id
LookupSession(w, sid) ==
    /\ w_pc[w] = "idle"
    /\ w_sid' = [w_sid EXCEPT ![w] = sid]
    /\ w_pc' = [w_pc EXCEPT ![w] = IF sid \in DOMAIN sessions THEN "resolved" ELSE "missing"]
    /\ UNCHANGED <<now, ledger, jobs, index, apivars, runvars, callvars>>

\* lines 190-193: the row is inserted and committed; when the id is there by
\* now the INSERT raises IntegrityError, which leaves through line 280
InsertSession(w) ==
    /\ w_pc[w] = "missing"
    /\ IF w_sid[w] \in DOMAIN sessions
       THEN /\ response' = 500
            /\ w_pc' = [w_pc EXCEPT ![w] = "idle"]
            /\ w_sid' = [w_sid EXCEPT ![w] = NoSessionId]
            /\ UNCHANGED sessions
       ELSE /\ sessions' = sessions @@ (w_sid[w] :> NewSession(now))
            /\ w_pc' = [w_pc EXCEPT ![w] = "resolved"]
            /\ UNCHANGED <<response, w_sid>>
    /\ UNCHANGED <<now, messages, jobs, index, pmvars,
                   retriever, runvars, callvars>>

\* lines 197-280: the rest of the handler, on the session resolved
FinishConversation(w) ==
    /\ w_pc[w] = "resolved"
    /\ w_sid[w] \in DOMAIN sessions
    /\ Len(messages) + 2 <= MaxMessages
    /\ \E query \in Queries, answer \in Answers, generated \in BOOLEAN, late \in {0, 1} :
         Conversation(w_sid[w], w_sid[w], NoPersonality, DefaultMaxResults, query,
                      answer, generated, late)
    /\ w_pc' = [w_pc EXCEPT ![w] = "idle"]
    /\ w_sid' = [w_sid EXCEPT ![w] = NoSessionId]

NextWorkers ==
    \/ Tick
    \/ \E w \in Workers :
         \/ \E sid \in SessionIds : LookupSession(w, sid)
         \/ InsertSession(w)
         \/ FinishConversation(w)

SpecWorkers == Init /\ [][NextWorkers]_vars

\* ------------------------------------ create_system_prompt on a template
\* the manager started on a directory holding one template, any object
InitCompile ==
    /\ EmptyLedger
    /\ \E o \in TemplateObjects :
         PersonalityManager([file \in {<<"pa", ".json">>} |-> JsonObject(o)],
                            <<<<"pa", ".json">>>>)
    /\ Process

NextCompile ==
    \/ \E personality_id \in Stems : GetPersonalityPrompt(personality_id)
    \/ DefaultPrompt

SpecCompile == InitCompile /\ [][NextCompile]_vars

\* ------------------------------------ the manager on a directory of files
Contents == {RawText("text1"), RawText("text2"), JsonObject(MinimalObject)}

\* the directories of at most MaxFiles files
Directories ==
    UNION {[D -> Contents] : D \in {S \in SUBSET Files : Cardinality(S) <= MaxFiles}}

InitPersonality ==
    /\ EmptyLedger
    /\ \E dir \in Directories : \E files \in GlobOrders(DOMAIN dir) :
         PersonalityManager(dir, files)
    /\ Process

NextPersonality ==
    \/ \E file \in Files, content \in Contents : AddPersonality(file, content)
    \/ \E personality_id \in Stems : GetPersonalityPrompt(personality_id)
    \/ DefaultPrompt

SpecPersonality == InitPersonality /\ [][NextPersonality]_vars

\* -------------------------------- the job on a ledger with two sessions
\* one answered turn of session 1 and, stored after it, one of session 2;
\* the reply of a turn is stamped in the hour of its query or the next, and
\* the second turn in the hour of the first one's reply or the next
SessionsMessages(late1, gap, late2) ==
    <<NewMessage(1, 1, "user", "q", 0),
      NewMessage(2, 1, "assistant", "a", late1),
      NewMessage(3, 2, "user", "q", late1 + gap),
      NewMessage(4, 2, "assistant", "a", late1 + gap + late2)>>

\* the rows all older than the staleness threshold, or those of the first
\* hour only
InitSessions ==
    /\ Started
    /\ now \in {StaleHours + 1, StaleHours + 4}
    /\ \E late1, gap, late2 \in {0, 1} :
         /\ messages = SessionsMessages(late1, gap, late2)
         /\ sessions = [s \in {1, 2} |->
                          [last_active |-> IF s = 1 THEN 0 ELSE late1 + gap,
                           personality_id |-> NoPersonality]]
    /\ jobs = <<>>
    /\ index = EmptyBag

NextSessions == \E r \in Runners : StartRunAlone(r) \/ RunSteps(r)

SpecSessions == InitSessions /\ [][NextSessions]_vars

\* --------------------------------- the API on a ledger the job has run on
\* the two sessions, after a run that selected the turn of session 1 (the
\* rows of the first hour), upserted its chunk and completed
MaxFrameMessages == 6

InitFrame ==
    /\ Started
    /\ now = StaleHours + 1
    /\ \E late2 \in {0, 1} :
         messages = MarkEmbedded(SessionsMessages(0, 1, late2), <<1, 2>>)
    /\ sessions = [s \in {1, 2} |->
                     [last_active |-> s - 1, personality_id |-> NoPersonality]]
    /\ jobs = <<[NewJob(now) EXCEPT !.status = "completed",
                                    !.completed_at = now,
                                    !.messages_processed = 2]>>
    /\ index = Upsert(EmptyBag,
                      chunk_conversation(SubSeq(SessionsMessages(0, 1, 0), 1, 2),
                                         DefaultChunkSize))

NextFrame ==
    \/ Turns(PersonalityIds \cup {NoPersonality}, {DefaultMaxResults}, BOOLEAN, MaxFrameMessages)
    \/ LongTermQueries(PersonalityIds \cup {NoPersonality}, {DefaultLongTermResults})
    \/ Queries_(PersonalityIds \cup {NoPersonality}, {DefaultMaxResults})

SpecFrame == InitFrame /\ [][NextFrame]_vars

\* ------------------------- the scheduled job and the API, without an end
MaxLiveMessages == 4

\* one answered turn of session 1, older than the staleness threshold, and
\* no run yet
InitLive ==
    /\ Started
    /\ now = StaleHours + 1
    /\ messages = <<NewMessage(1, 1, "user", "q", 0), NewMessage(2, 1, "assistant", "a", 0)>>
    /\ sessions = [s \in {1} |-> [last_active |-> 0, personality_id |-> NoPersonality]]
    /\ jobs = <<>>
    /\ index = EmptyBag

\* the clock runs on until every row that can be stored is older than the
\* staleness threshold
TickLive ==
    /\ now < MaxClock + StaleHours + 1
    /\ now' = now + 1
    /\ UNCHANGED <<ledger, jobs, index, apivars, runvars, callvars, wkvars>>

\* an answered conversation turn of a stored session with the default
\* parameters
LiveTurn ==
    /\ Len(messages) + 2 <= MaxLiveMessages
    /\ \E sid \in DOMAIN sessions :
         Conversation(sid, sid, NoPersonality, DefaultMaxResults, "q", "a", TRUE, 0)
    /\ UNCHANGED wkvars

\* the scheduler starts a run when none is in progress.  No run reads the
\* job row of another: only the row of the latest run is kept
StartRunLive(r) ==
    /\ \A other \in Runners : pc[other] = "idle"
    /\ \A other \in Runners : other >= r
    /\ jobs' = <<NewJob(now)>>
    /\ job' = [job EXCEPT ![r] = 1]
    /\ pc' = [pc EXCEPT ![r] = "select"]
    /\ UNCHANGED <<now, ledger, index, apivars, cutoff_time, pending_messages, todo,
                   total_processed, callvars, wkvars>>

\* a run that fails can leave chunks in the index that the next run writes
\* again: the calls fail only while the index holds nothing but what the
\* failing run has upserted
FirstUpsert(r) ==
    \/ index = EmptyBag
    \/ /\ pc[r] = "commit"
       /\ index = Upsert(EmptyBag,
                         chunk_conversation(Rows(GroupOf(pending_messages[r], Head(todo[r]))),
                                            DefaultChunkSize))

RunStepsLive(r) ==
    \/ SelectMessages(r)
    \/ AddTexts(r)
    \/ FirstUpsert(r) /\ AddTextsFails(r)
    \/ CommitSession(r)
    \/ FirstUpsert(r) /\ CommitFails(r)
    \/ FirstUpsert(r) /\ HandlerFails(r)
    \/ Finish(r)

NextLive ==
    \/ TickLive
    \/ LiveTurn
    \/ \E r \in Runners : StartRunLive(r) \/ RunStepsLive(r)

\* the clock advances, runs keep being scheduled and go on, and the calls
\* of add_texts and of the commit do not fail for ever
SpecLive ==
    /\ InitLive
    /\ [][NextLive]_vars
    /\ WF_vars(TickLive)
    /\ WF_vars(\E r \in Runners : StartRunLive(r) \/ SelectMessages(r) \/ Finish(r))
    /\ SF_vars(\E r \in Runners : AddTexts(r))
    /\ SF_vars(\E r \in Runners : CommitSession(r))

\* ============================================================ the claims
\* the number of index entries whose message_ids hold message id i
ChunksHolding(i) ==
    BagCardinality([e \in {c \in BagToSet(index) :
                              i \in Range(c.metadata.message_ids)} |-> index[e]])

MessageIds == 1..Len(messages)

StatusOf(i) == messages[i].embedding_status

\* C1: a message's embedding status changes only from pending to embedded or
\* from pending to failed, an embedded or failed message keeps its status, no
\* row is dropped, and every new row is pending.
C1_StatusTransitions ==
    [][/\ Len(messages') >= Len(messages)
       /\ \A i \in MessageIds :
            messages'[i].embedding_status # StatusOf(i) =>
                /\ StatusOf(i) = "pending"
                /\ messages'[i].embedding_status \in {"embedded", "failed"}
       /\ \A i \in (Len(messages) + 1)..Len(messages') :
            messages'[i].embedding_status = "pending"]_vars

\* a run has marked one message of a turn while the other is still pending
C1_Witness ==
    \E i, j \in MessageIds : StatusOf(i) = "embedded" /\ StatusOf(j) = "pending"

\* C2: every embedded message has its id in the message_ids of an entry of
\* the vector index.
C2_EmbeddedIsIndexed ==
    \A i \in MessageIds : StatusOf(i) = "embedded" => ChunksHolding(i) >= 1

\* every message of the ledger is embedded, by a run that has completed
C2_Witness ==
    /\ messages # <<>>
    /\ \A i \in MessageIds : StatusOf(i) = "embedded"
    /\ \E j \in 1..Len(jobs) : jobs[j].status = "completed" /\ jobs[j].messages_processed > 0

\* C3: with the runs kept apart, no message id is in the message_ids of more
\* than one entry of the vector index.
C3_NoDuplicateChunks ==
    \A i \in MessageIds : ChunksHolding(i) <= 1

\* the step of run r that takes the selection of lines 44-49
Selects(r) == pc[r] = "select" /\ pc'[r] # "select"

\* run r returns from its selection with nothing to do: no entry added, no
\* row changed, its job completed with messages_processed = 0
NothingToDo(r) ==
    /\ pc'[r] = "idle"
    /\ index' = index
    /\ messages' = messages
    /\ jobs'[job[r]].status = "completed"
    /\ jobs'[job[r]].messages_processed = 0

\* C4 as stated: a run that selects while the clock is where it was when the
\* run before it started has nothing to do, however the run before it ended.
C4_SecondRunIdle ==
    [][\A r \in Runners :
         (Selects(r) /\ job[r] > 1 /\ jobs[job[r] - 1].started_at = now)
            => NothingToDo(r)]_vars

\* C4 amended: a run that selects while the clock is where it was when the
\* run before it started, that run having ended completed, has nothing to do.
C4_SecondRunIdleAfterCompleted ==
    [][\A r \in Runners :
         (/\ Selects(r)
          /\ job[r] > 1
          /\ jobs[job[r] - 1].status = "completed"
          /\ jobs[job[r] - 1].started_at = now)
            => NothingToDo(r)]_vars

\* a run has embedded messages and completed, and the run started in the same
\* hour after it has completed with nothing processed
C4_Witness ==
    /\ Len(jobs) >= 2
    /\ jobs[1].status = "completed" /\ jobs[1].messages_processed > 0
    /\ jobs[2].status = "completed" /\ jobs[2].messages_processed = 0
    /\ jobs[2].started_at = jobs[1].started_at
    /\ \A i \in MessageIds : ChunksHolding(i) = 1

\* the entries of the index, each as often as it is stored
IndexEntries == BagToSet(index)

\* C5: after one completed run on the backlog of 12 stale pending messages of
\* one session, the index holds exactly three entries, of 5, 5 and 2 message
\* ids in chronological order, which together hold each of the 12 ids once;
\* the 12 messages are embedded and the job has messages_processed = 12.
C5_BacklogEmbedded ==
    (jobs # <<>> /\ jobs[1].status = "completed") =>
        /\ BagCardinality(index) = 3
        /\ \E c1, c2, c3 \in IndexEntries :
             /\ Len(c1.metadata.message_ids) = 5
             /\ Len(c2.metadata.message_ids) = 5
             /\ Len(c3.metadata.message_ids) = 2
             /\ c1.metadata.start_time <= c1.metadata.end_time
             /\ c1.metadata.end_time <= c2.metadata.start_time
             /\ c2.metadata.start_time <= c2.metadata.end_time
             /\ c2.metadata.end_time <= c3.metadata.start_time
             /\ c3.metadata.start_time <= c3.metadata.end_time
             /\ \A i \in Range(c1.metadata.message_ids), j \in Range(c2.metadata.message_ids),
                   k \in Range(c3.metadata.message_ids) :
                     /\ messages[i].timestamp <= messages[j].timestamp
                     /\ messages[j].timestamp <= messages[k].timestamp
             /\ Range(c1.metadata.message_ids) \cup Range(c2.metadata.message_ids)
                    \cup Range(c3.metadata.message_ids) = 1..12
        /\ \A i \in MessageIds : StatusOf(i) = "embedded"
        /\ Len(messages) = 12
        /\ jobs[1].messages_processed = 12

\* the run on the backlog has completed
C5_Witness ==
    /\ Len(jobs) = 1
    /\ jobs[1].status = "completed"
    /\ jobs[1].messages_processed = 12
    /\ BagCardinality(index) = 3

\* the message ids of a list of rows
IdsOf(msgs) == [i \in 1..Len(msgs) |-> msgs[i].message_id]

RECURSIVE ConcatIds(_)
\* the message_ids lists of a list of chunks, one after the other
ConcatIds(chunks) ==
    IF chunks = <<>> THEN <<>>
    ELSE Head(chunks).metadata.message_ids \o ConcatIds(Tail(chunks))

\* C6: chunk_conversation(M, w), w >= 1, returns ceil(|M|/w) chunks; the k-th
\* is the window of M from (k-1)w+1 to min(kw, |M|) in M's order, of w rows
\* except for the last, which has from 1 to w; the message_ids lists put end
\* to end are the ids of M, and the empty list gives no chunk.
C6_ContiguousWindows ==
    cc_pc = "returned" =>
        LET n == Len(cc_messages)
            w == cc_size
            K == Len(cc_chunks)
        IN  /\ K = (n + w - 1) \div w
            /\ \A k \in 1..K :
                 LET window == SubSeq(cc_messages, (k - 1) * w + 1, Min(k * w, n))
                 IN  /\ cc_chunks[k].metadata.message_ids = IdsOf(window)
                     /\ cc_chunks[k].text =
                            [j \in 1..Len(window) |-> <<window[j].role, window[j].content>>]
                     /\ Len(cc_chunks[k].metadata.message_ids) \in 1..w
                     /\ k < K => Len(cc_chunks[k].metadata.message_ids) = w
            /\ ConcatIds(cc_chunks) = IdsOf(cc_messages)
            /\ n = 0 => cc_chunks = <<>>

\* a call has returned three chunks or more, the last one short
C6_Witness ==
    /\ cc_pc = "returned"
    /\ Len(cc_chunks) >= 3
    /\ Len(cc_messages) % cc_size # 0

\* the age of message i, in hours
Age(i) == now - messages[i].timestamp

\* the ids run r takes in the step that selects
Selected(r) == Range(pending_messages'[r])

\* C7 as stated: a run selects exactly the pending messages whose age is
\* greater than or equal to the threshold.
C7_SelectsAtThreshold ==
    [][\A r \in Runners :
         Selects(r) =>
            Selected(r) = {i \in MessageIds : StatusOf(i) = "pending" /\ Age(i) >= StaleHours}]_vars

\* C7 amended: a run selects exactly the pending messages whose age is
\* greater than the threshold, a pending message whose age is the threshold is
\* not selected, and the run embeds none but the messages it selected.
C7_SelectsOlderThanThreshold ==
    [][\A r \in Runners :
         /\ Selects(r) =>
              /\ Selected(r) = {i \in MessageIds : StatusOf(i) = "pending" /\ Age(i) > StaleHours}
              /\ \A i \in MessageIds :
                   StatusOf(i) = "pending" /\ Age(i) = StaleHours => i \notin Selected(r)
         /\ (pc[r] = "commit" /\ pc'[r] # "commit") =>
              \A i \in MessageIds :
                 messages'[i].embedding_status # StatusOf(i) => i \in Range(pending_messages[r])]_vars

\* a run has selected, and has left out a pending message that was as old as
\* the threshold when it did
C7_Witness ==
    \E r \in Runners :
        /\ pc[r] = "embed"
        /\ \E i \in MessageIds :
             /\ StatusOf(i) = "pending"
             /\ messages[i].timestamp = cutoff_time[r]
             /\ i \notin Range(pending_messages[r])

\* run r has selected message i and add_texts has returned for its session
Upserted(r, i) ==
    /\ i \in Range(pending_messages[r])
    /\ \/ messages[i].session_id \notin Range(todo[r])
       \/ messages[i].session_id = Head(todo[r]) /\ pc[r] = "commit"

\* C8: nothing keeps a run from a message another run has selected: when two
\* runs in progress have both selected a message and have both had its
\* session's chunks upserted, the index holds the message id twice or more.
C8_BothRunsUpsert ==
    \A r1, r2 \in Runners, i \in MessageIds :
        (r1 # r2 /\ Upserted(r1, i) /\ Upserted(r2, i)) => ChunksHolding(i) >= 2

\* two runs have selected the same pending message, neither has committed its
\* status, and its id is in two entries of the index
C8_Witness ==
    \E r1, r2 \in Runners, i \in MessageIds :
        /\ r1 # r2
        /\ pc[r1] = "commit" /\ pc[r2] = "commit"
        /\ Upserted(r1, i) /\ Upserted(r2, i)
        /\ StatusOf(i) = "pending"
        /\ ChunksHolding(i) = 2

\* the rows of messages are the turns' pairs: a user row, then the assistant
\* row of the same session
CompletePairs(msgs) ==
    /\ Len(msgs) % 2 = 0
    /\ \A i \in 1..Len(msgs) :
         i % 2 = 1 =>
            /\ msgs[i].role = "user"
            /\ msgs[i + 1].role = "assistant"
            /\ msgs[i + 1].session_id = msgs[i].session_id

\* the personality ids a request may carry
RequestPersonalities == PersonalityIds \cup {NoPersonality}

\* C9: the ledger holds complete (user, assistant) pairs at all times; a
\* conversation request adds either nothing or the two rows of its turn, both
\* of its session, and it adds nothing when its response is not a 200, so
\* when the chain has raised.  (A step that leaves messages as it was meets
\* all of it, so the requests are told apart on the other steps only.)
C9_TurnIsAtomic ==
    [][/\ CompletePairs(messages')
       /\ messages' # messages =>
          \A in \in SessionInputs, pid \in RequestPersonalities, query \in Queries,
             answer \in Answers, generated \in BOOLEAN, late \in {0, 1} :
            Conversation(in[1], in[2], pid, DefaultMaxResults, query, answer, generated, late) =>
               /\ ConversationStatus(in[1], in[2], pid, generated) # 200 => messages' = messages
               /\ ~generated => messages' = messages
               /\ messages' # messages =>
                    /\ Len(messages') = Len(messages) + 2
                    /\ SubSeq(messages', 1, Len(messages)) = messages
                    /\ messages'[Len(messages) + 1].session_id = SessionOf(in[1], in[2])
                    /\ messages'[Len(messages) + 1].content = query
                    /\ messages'[Len(messages) + 2].content = answer]_vars

\* a session whose only turns were compiled and then failed in the chain has
\* no row, beside a turn that was answered
C9_Witness ==
    /\ Len(messages) >= 2
    /\ \E s \in DOMAIN sessions :
         /\ sessions[s].personality_id \in DOMAIN personalities \cup {NoPersonality}
         /\ \A i \in MessageIds : messages[i].session_id # s

\* C10: a conversation request whose personality id is not among the loaded
\* personalities is answered 404 and writes nothing to the ledger: no session
\* row is inserted or changed, no message is appended.
C10_UnknownPersonalityNoWrite ==
    [][\A in \in SessionInputs, pid \in PersonalityIds \ DOMAIN personalities,
          query \in Queries, answer \in Answers, generated \in BOOLEAN, late \in {0, 1} :
            Conversation(in[1], in[2], pid, DefaultMaxResults, query, answer, generated, late) =>
               /\ ConversationStatus(in[1], in[2], pid, generated) = 404
               /\ sessions' = sessions
               /\ messages' = messages]_vars

\* C11: a conversation or long-term query whose session id is not a uuid is
\* answered with the client error 400, which no failure of the chain is
\* answered with, and writes nothing to the ledger.
C11_MalformedIdIsClientError ==
    [][/\ \A pid \in RequestPersonalities, query \in Queries, answer \in Answers,
             generated \in BOOLEAN, late \in {0, 1} :
            Conversation(MalformedId, MalformedId, pid, DefaultMaxResults, query,
                         answer, generated, late) =>
               /\ response' = 400
               /\ sessions' = sessions
               /\ messages' = messages
       /\ \A pid \in RequestPersonalities, generated \in BOOLEAN :
            LongTermQuery(MalformedId, pid, DefaultLongTermResults, generated) =>
               /\ response' = 400
               /\ sessions' = sessions
               /\ messages' = messages]_vars

\* the rows of session s in the table messages
MessagesOf(s) == {i \in MessageIds : messages[i].session_id = s}

\* an answered conversation request without personality id on session s,
\* which has no message yet
FirstTurn(in, query, answer, late) ==
    /\ in[1] # MalformedId
    /\ MessagesOf(SessionOf(in[1], in[2])) = {}
    /\ ConversationStatus(in[1], in[2], NoPersonality, TRUE) = 200
    /\ Conversation(in[1], in[2], NoPersonality, DefaultMaxResults, query, answer, TRUE, late)

\* the two rows the turn leaves: the user row with the query, then the
\* assistant row with the reply, both pending, the user row stamped no later
\* than the assistant row
TwoRowsStored(s, query, answer) ==
    /\ Len(messages') = Len(messages) + 2
    /\ SubSeq(messages', 1, Len(messages)) = messages
    /\ LET user == messages'[Len(messages) + 1]
           assistant == messages'[Len(messages) + 2]
       IN  /\ user.session_id = s /\ assistant.session_id = s
           /\ user.role = "user" /\ user.content = query
           /\ assistant.role = "assistant" /\ assistant.content = answer
           /\ user.embedding_status = "pending"
           /\ assistant.embedding_status = "pending"
           /\ user.timestamp <= assistant.timestamp

HistoryIds == {chat_history[k].message_id : k \in 1..Len(chat_history)}

\* the rows fetched are rows of the session asked for, no more than the
\* limit, and no row of the session left out is newer than one fetched
HistoryIsRecent ==
    /\ Len(chat_history) = Min(h_limit, Cardinality(MessagesOf(h_session)))
    /\ Cardinality(HistoryIds) = Len(chat_history)
    /\ \A k \in 1..Len(chat_history) :
         /\ chat_history[k].session_id = h_session
         /\ chat_history[k] = messages[chat_history[k].message_id]
    /\ \A i \in HistoryIds, j \in MessagesOf(h_session) \ HistoryIds :
         messages[j].timestamp <= messages[i].timestamp

\* C13: the history fetched for a session holds no more rows than the limit,
\* they are the most recent rows of that session, and they are listed in
\* strictly increasing timestamp order, a query before its reply.
C13_HistoryStrictlyOrdered ==
    h_pc = "returned" =>
        /\ Len(chat_history) <= h_limit
        /\ HistoryIsRecent
        /\ \A k \in 1..(Len(chat_history) - 1) :
             chat_history[k].timestamp < chat_history[k + 1].timestamp
        /\ \A k, l \in 1..Len(chat_history) :
             (/\ chat_history[k].role = "user"
              /\ chat_history[l].message_id = chat_history[k].message_id + 1) => k < l

\* the personality id session s has stored (none when s is not there yet)
StoredChoice(s) ==
    IF s \in DOMAIN sessions THEN sessions[s].personality_id ELSE NoPersonality

\* C14: a conversation turn that supplies a personality id is compiled with
\* that id and leaves it as the session's stored choice; a turn that supplies
\* none is compiled with the stored choice (the default when there is none)
\* and leaves it as it is.
C14_ChoiceIsSticky ==
    [][\A in \in SessionInputs, pid \in RequestPersonalities, query \in Queries,
          answer \in Answers, generated \in BOOLEAN, late \in {0, 1} :
         (/\ in[1] # MalformedId
          /\ Conversation(in[1], in[2], pid, DefaultMaxResults, query, answer, generated, late)) =>
            LET s == SessionOf(in[1], in[2])
            IN  IF pid # NoPersonality
                THEN /\ ConversationPersonality(in[1], in[2], pid) = pid
                     /\ sessions'[s].personality_id = pid
                ELSE /\ ConversationPersonality(in[1], in[2], pid) = StoredChoice(s)
                     /\ sessions'[s].personality_id = StoredChoice(s)]_vars

\* C15: a conversation request that names a session id that is there fetches
\* the row and inserts none, no row of sessions or messages is ever dropped
\* or reset, a request that names an unseen id ends its resolution with the
\* one row of that id in the table, and it does so when another request has
\* inserted the id since its lookup: it does not fail.
C15_ResolutionIsIdempotent ==
    [][/\ \A s \in DOMAIN sessions :
            /\ s \in DOMAIN sessions'
            /\ sessions'[s].personality_id = sessions[s].personality_id
            /\ sessions'[s].last_active >= sessions[s].last_active
       /\ SubSeq(messages', 1, Len(messages)) = messages
       /\ \A w \in Workers :
            /\ (w_pc[w] = "idle" /\ w_pc'[w] # "idle") =>
                  /\ sessions' = sessions
                  /\ w_sid'[w] \in DOMAIN sessions => w_pc'[w] = "resolved"
            /\ (w_pc[w] = "missing" /\ w_pc'[w] # "missing") =>
                  /\ w_pc'[w] = "resolved"
                  /\ w_sid[w] \in DOMAIN sessions'
                  /\ response' = response]_vars

\* the header create_system_prompt writes for an optional field
HeaderOf(field) ==
    CASE field = "communication_style" -> "Communication style:"
      [] field = "anchor_phrases" -> "Use these anchor phrases in your responses:"
      [] field = "behavioral_guidelines" -> "Guidelines for your responses:"
      [] field = "example_responses" -> "Examples of your typical responses:"

Lines(text) == {text[i] : i \in 1..Len(text)}

\* C16: the prompt compiled from a template with only name, role and
\* core_identity is exactly the identity line and the core-identity
\* paragraph, and the header of an optional field that is absent or empty
\* is not in the prompt.
C16_NoEmptySections ==
    [][\A personality_id \in Stems :
          (/\ GetPersonalityPrompt(personality_id)
           /\ personality_id \in DOMAIN personalities
           /\ personalities[personality_id].type = "template"
           /\ prompt'.status = "ok")
          => LET data == personalities[personality_id].data.object
             IN  /\ DOMAIN data = RequiredFields
                      => prompt'.text = <<"You are name, role.", "core_identity">>
                 /\ \A field \in OptionalFields :
                      (field \notin DOMAIN data \/ data[field] = "empty")
                          => HeaderOf(field) \notin Lines(prompt'.text)]_vars

\* the definition get_personality() returns when no id is given
DefaultDefinition == get_personality(NoPersonality).personality

\* C17: get/compile of an id that is given and not indexed fails with
\* NotFound and changes nothing; with no id, get returns the default
\* definition, and that is the first definition loaded at start-up.
C17_UnknownFailsDefaultIsFirstLoaded ==
    /\ [][\A personality_id \in Stems :
             (GetPersonalityPrompt(personality_id) /\ personality_id \notin DOMAIN personalities)
                 => /\ prompt'.status = "ValueError"
                    /\ response' = 404
                    /\ UNCHANGED <<pmstore, ledger>>]_vars
    /\ [](get_personality(NoPersonality).status = "ok" => DefaultDefinition = first_loaded)

\* C18: an add of malformed structured content fails before any side
\* effect: the files of the directory and their contents, the index and the
\* default are as they were before the call.
C18_FailedAddHasNoEffect ==
    [][\A file \in Files, content \in Contents :
          (AddPersonality(file, content) /\ ~Loads(file, content))
              => /\ response' = 400
                 /\ directory' = directory
                 /\ personalities' = personalities
                 /\ default_personality' = default_personality]_vars

\* C19: at runtime no indexed id is ever removed and the definition bound to
\* an indexed id never changes, whatever is compiled or added.
C19_IndexedDefinitionsAreImmutable ==
    [][/\ DOMAIN personalities \subseteq DOMAIN personalities'
       /\ \A personality_id \in DOMAIN personalities :
            personalities'[personality_id] = personalities[personality_id]]_vars

\* the run of r starts, and the run of r is over
Starts(r) == pc[r] = "idle" /\ pc'[r] # "idle"
Ends(r) == pc[r] # "idle" /\ pc'[r] = "idle"
TerminalStatus == {"completed", "failed"}

\* C20: a run creates exactly one job record, running; a job's status
\* changes only from running to completed or failed and a terminal job never
\* changes; a run that returns leaves its job terminal with completed_at
\* set, and with the error text when failed.  (A run whose except branch
\* raises does not return.)
C20_JobLifecycle ==
    [][/\ \A r \in Runners :
            IF Starts(r)
            THEN /\ Len(jobs') = Len(jobs) + 1
                 /\ job'[r] = Len(jobs')
                 /\ jobs'[job'[r]].status = "running"
                 /\ \A other \in Runners \ {r} : job'[other] # job'[r]
            ELSE (\A other \in Runners : ~Starts(other)) => Len(jobs') = Len(jobs)
       /\ \A j \in 1..Len(jobs) :
            jobs'[j] # jobs[j]
                => /\ jobs[j].status = "running"
                   /\ jobs'[j].status \in TerminalStatus
                   /\ \E r \in Runners : job[r] = j /\ Ends(r)
       /\ \A r \in Runners :
            (Ends(r) /\ ~HandlerFails(r))
                => /\ jobs'[job[r]].status \in TerminalStatus
                   /\ jobs'[job[r]].completed_at # Null
                   /\ jobs'[job[r]].status = "failed"
                          => jobs'[job[r]].error_message # NoError]_vars

\* one run has returned failed and another completed with rows embedded
C20_Witness ==
    /\ \A r \in Runners : pc[r] = "idle"
    /\ \E i, j \in 1..Len(jobs) :
         /\ jobs[i].status = "failed"
         /\ jobs[i].error_message # NoError
         /\ jobs[i].completed_at # Null
         /\ jobs[j].status = "completed"
         /\ jobs[j].messages_processed > 0

\* the rows the run of r selected that are embedded when the run is over:
\* with the runs kept apart, the rows whose status that run changed
EmbeddedBy(r) ==
    {i \in Range(pending_messages[r]) : messages'[i].embedding_status = "embedded"}

\* C21: a job in a terminal status has messages_processed equal to the
\* number of messages its run changed from pending to embedded, a run that
\* fails after committing some sessions included.
C21_ProcessedCountsEmbedded ==
    [][\A r \in Runners :
          (Ends(r) /\ jobs'[job[r]].status \in TerminalStatus)
              => jobs'[job[r]].messages_processed = Cardinality(EmbeddedBy(r))]_vars

\* a step of the run of r fails: add_texts raises, or the commit of line 100
Fails(r) == AddTextsFails(r) \/ CommitFails(r) \/ HandlerFails(r)

\* the selected rows of the sessions the run of r has not committed
Uncommitted(r) ==
    {i \in Range(pending_messages[r]) : messages[i].session_id \in Range(todo[r])}

\* C22: when a step of a run fails on a session the run is over, and
\* processes no further session: no status changes at the failure, the rows
\* of the sessions committed before stay embedded, those of the failing
\* session and of the sessions not yet processed are pending as before the
\* run, and only a run in progress ever upserts or changes a status.
C22_FailureStopsTheRun ==
    [][/\ \A r \in Runners :
            Fails(r)
                => /\ Ends(r)
                   /\ messages' = messages
                   /\ \A i \in Range(pending_messages[r]) :
                        messages'[i].embedding_status =
                            IF i \in Uncommitted(r) THEN "pending" ELSE "embedded"
                   /\ \A e \in BagToSet(index') \ BagToSet(index) :
                        e.metadata.session_id = Head(todo[r])
       /\ (\A r \in Runners : pc[r] \notin {"embed", "commit"})
            => /\ index' = index
               /\ \A i \in 1..Len(messages) :
                    messages'[i].embedding_status = messages[i].embedding_status]_vars

\* a run has failed on its second session: the rows of the first are
\* embedded, the others pending, and the run is over
C22_Witness ==
    /\ \A r \in Runners : pc[r] = "idle"
    /\ Len(jobs) = 1
    /\ jobs[1].status = "failed"
    /\ \E s \in DOMAIN sessions :
         \A i \in 1..Len(messages) :
            messages[i].embedding_status =
                IF messages[i].session_id = s THEN "embedded" ELSE "pending"

\* the rows a failed run selected and did not embed: with the runs kept
\* apart, the clock still and nothing appended, the pending rows older than
\* the cutoff of a failed job
LeftByFailedRun ==
    {i \in 1..Len(messages) :
        /\ messages[i].embedding_status = "pending"
        /\ \E j \in 1..Len(jobs) :
             /\ jobs[j].status = "failed"
             /\ messages[i].timestamp < jobs[j].started_at - StaleHours}

\* C23: the rows a failed run selected and did not embed are never selected
\* by a later run.
C23_FailedRunStrands ==
    [][\A r \in Runners : Selects(r) => Selected(r) \cap LeftByFailedRun = {}]_vars

\* C23, amended: the rows a failed run selected and did not embed stay
\* pending and every later run selects them again; the run embeds them when
\* its steps succeed.
C23_FailedRunIsRetried ==
    [][\A r \in Runners :
          /\ Selects(r) => LeftByFailedRun \subseteq Selected(r)
          /\ (Ends(r) /\ jobs'[job[r]].status = "completed")
                => LeftByFailedRun' = {}]_vars

\* a run has failed and a later run has embedded every row it had left
C23_Witness ==
    /\ Len(jobs) = 2
    /\ jobs[1].status = "failed"
    /\ jobs[2].status = "completed"
    /\ jobs[2].messages_processed > 0
    /\ LeftByFailedRun = {}

\* C24: a long-term query that names a session and is answered resolves or
\* creates the session, appends the user query and the assistant reply as two
\* pending rows of that session and updates last_active, as a conversation
\* turn does.
C24_LongTermQueryPersistsTurn ==
    [][\A sid \in SessionIds, pid \in RequestPersonalities, generated \in BOOLEAN :
          (LongTermQuery(sid, pid, DefaultLongTermResults, generated) /\ response' = 200)
              => /\ sid \in DOMAIN sessions'
                 /\ sessions'[sid].last_active = now
                 /\ Len(messages') = Len(messages) + 2
                 /\ SubSeq(messages', 1, Len(messages)) = messages
                 /\ \A i \in {Len(messages) + 1, Len(messages) + 2} :
                      /\ messages'[i].session_id = sid
                      /\ messages'[i].embedding_status = "pending"
                 /\ messages'[Len(messages) + 1].role = "user"
                 /\ messages'[Len(messages) + 2].role = "assistant"]_vars

C26_QueriesWriteShortTermOnly ==
    [][/\ index' = index
       /\ jobs' = jobs
       /\ Len(messages') >= Len(messages)
       /\ \A i \in 1..Len(messages) : messages'[i] = messages[i]
       /\ \A i \in (Len(messages) + 1)..Len(messages') :
            messages'[i].embedding_status = "pending"
       /\ DOMAIN sessions \subseteq DOMAIN sessions'
       /\ (sessions' # sessions \/ messages' # messages) =>
            \A in \in SessionInputs, pid \in RequestPersonalities, query \in Queries,
               answer \in Answers, generated \in BOOLEAN, late \in {0, 1} :
              Conversation(in[1], in[2], pid, DefaultMaxResults, query, answer, generated, late) =>
                 /\ \A s \in DOMAIN sessions' \ {SessionOf(in[1], in[2])} :
                      s \in DOMAIN sessions /\ sessions'[s] = sessions[s]
                 /\ \A i \in (Len(messages) + 1)..Len(messages') :
                      messages'[i].session_id = SessionOf(in[1], in[2])
       /\ \A sid \in DOMAIN sessions \cup Unseen \cup {NoSessionId, MalformedId},
             pid \in RequestPersonalities, generated \in BOOLEAN :
            LongTermQuery(sid, pid, DefaultLongTermResults, generated)
                => sessions' = sessions /\ messages' = messages
       /\ \A pid \in RequestPersonalities, generated \in BOOLEAN :
            Query(pid, DefaultMaxResults, generated)
                => sessions' = sessions /\ messages' = messages]_vars

\* a turn of session 1 has been stored beside its embedded rows, the index
\* and the job as the run left them
C26_Witness ==
    /\ Len(messages) = 6
    /\ messages[1].embedding_status = "embedded"
    /\ messages[5].session_id = 1
    /\ messages[5].embedding_status = "pending"
    /\ index # EmptyBag
    /\ Len(jobs) = 1

\* the rows an index entry was made of
RowsOf(e) == [j \in 1..Len(e.metadata.message_ids) |-> messages[e.metadata.message_ids[j]]]

\* C27: every chunk in the index holds rows of one session, in
\* non-decreasing timestamp order; its session_id is that session, its
\* start_time and end_time are the timestamps of its first and last row,
\* and start_time <= end_time.
C27_ChunksAreOfOneSession ==
    \A e \in BagToSet(index) :
        LET rows == RowsOf(e)
        IN  /\ Len(rows) >= 1
            /\ \A j \in 1..Len(rows) : rows[j].session_id = e.metadata.session_id
            /\ \A j \in 1..(Len(rows) - 1) : rows[j].timestamp <= rows[j + 1].timestamp
            /\ e.metadata.start_time = rows[1].timestamp
            /\ e.metadata.end_time = rows[Len(rows)].timestamp
            /\ e.metadata.start_time <= e.metadata.end_time

\* one run has upserted a chunk of each of the two sessions, the rows of
\* all four stamped in the same hour
C27_Witness ==
    /\ Len(jobs) = 1
    /\ \A s \in {1, 2} : \E e \in BagToSet(index) : e.metadata.session_id = s
    /\ \A i \in 1..Len(messages) : messages[i].timestamp = 0

\* C28: whenever a definition is indexed the default is the id of an
\* indexed definition, and get with no id succeeds.
C28_DefaultIsDefined ==
    DOMAIN personalities # {}
        => /\ default_personality \in DOMAIN personalities
           /\ get_personality(NoPersonality).status = "ok"

\* C29: every indexed template carries name, role and core_identity, and
\* every indexed id compiles to a prompt.
C29_IndexedDefinitionsCompile ==
    \A personality_id \in DOMAIN personalities :
        /\ personalities[personality_id].type = "template"
              => RequiredFields \subseteq DOMAIN personalities[personality_id].data.object
        /\ create_system_prompt(personality_id).status = "ok"

\* C30: every row appended to the ledger is eventually embedded, its id in
\* a chunk of the index.
C30_EveryMessageIsEmbedded ==
    \A i \in 1..MaxLiveMessages :
        (i <= Len(messages))
            ~> (i <= Len(messages) /\ StatusOf(i) = "embedded" /\ ChunksHolding(i) > 0)

\* the four rows of one session embedded by two runs, the rows of the second
\* turn stored when the rows of the first were already stale
C30_Witness ==
    /\ Len(messages) = 4
    /\ \A i \in 1..4 : messages[i].session_id = 1 /\ StatusOf(i) = "embedded"
    /\ messages[3].timestamp > messages[2].timestamp + StaleHours
    /\ \A c \in BagToSet(index) : ~ {1, 3} \subseteq Range(c.metadata.message_ids)
    /\ ChunksHolding(3) > 0

====
